---- MODULE Spec2Model ----
(***************************************************************************)
(* Model of logentries/utils.py: the asynchronous socket appender           *)
(* (SocketAppender, a daemon thread that drains a bounded queue over a TCP  *)
(* connection with reconnect and backoff) and its producer-facing logging   *)
(* handler (LogentriesHandler).                                             *)
(*                                                                          *)
(* Text is modelled as sequences of one-character strings, so that          *)
(* concatenation, rstrip, newline replacement and framing are computed as   *)
(* the code computes them.  Time is counted in tenths of a second.          *)
(***************************************************************************)
EXTENDS Integers, Sequences, FiniteSets, TLC

(* ------------------------------ bounds -------------------------------- *)

\* Number of producer threads calling emit.
NumProducers == 2
\* Total number of emit calls made over a behaviour.
MaxEmits == 2
\* Total number of send calls the endpoint fails (socket.error).
MaxSendFail == 2
\* Total number of connect attempts the endpoint refuses.
MaxConnFail == 2
\* QUEUE_SIZE (utils.py line 18 sets 32768) scaled down to a checkable size.
QUEUE_SIZE == 2
\* Connect attempts the endpoint refuses in the backoff specifications: enough
\* for the delay to reach MAX_DELAY and stay there.
BackoffRefusals == 8

(* ------------------------- program constants -------------------------- *)

\* MIN_DELAY = 0.1 s and MAX_DELAY = 10 s, in tenths of a second.
MIN_DELAY == 1
MAX_DELAY == 100

\* The newline character and LINE_SEP (U+2028), as one-character atoms.
NL == "NL"
LINE_SEP == "u2028"
\* LIBRARY_IDENTIFIER, one atom standing for the fixed identifier string.
LIBRARY_IDENTIFIER == <<"###P01###">>
\* The token handed to LogentriesHandler(token).
Token == <<"tok">>

Producers == 1..NumProducers

\* What self.format(record) may return for the records the producers log:
\* a plain line, and a text with an embedded and a trailing newline.
FormattedRecords == { <<"a">>, <<"b", NL, "c", NL>> }

(* --------------------------- pure functions --------------------------- *)

\* str.rstrip('\n'): drop every trailing newline.
RECURSIVE RStrip(_)
RStrip(s) ==
    IF s = <<>> THEN s
    ELSE IF s[Len(s)] = NL THEN RStrip(SubSeq(s, 1, Len(s) - 1))
    ELSE s

\* str.replace('\n', LINE_SEP)
ReplaceNewlines(s) == [i \in 1..Len(s) |-> IF s[i] = NL THEN LINE_SEP ELSE s[i]]

\* Mutant of Multiline: the newlines inside the message are left as they are.
MultilineKeepsNewlines(data) == data \o <<NL>>

\* run, lines 91-96: the line handed to send for a dequeued message.
Multiline(data) == ReplaceNewlines(data) \o <<NL>>

\* Mutant of PrimingMsg: the identifier placed before the token.
PrimingMsgIdentifierFirst == LIBRARY_IDENTIFIER \o Token \o <<NL>>

\* __init__, line 125: the identifier message queued at construction.
PrimingMsg == Token \o LIBRARY_IDENTIFIER \o <<NL>>

\* emit, lines 136-137: the message queued for a formatted record.
EmitMsg(text) == Token \o RStrip(text)

IsPrefix(p, s) == Len(p) <= Len(s) /\ SubSeq(s, 1, Len(p)) = p

Min(a, b) == IF a < b THEN a ELSE b

(* ------------------------------- state -------------------------------- *)

VARIABLES
    good_config,  \* LogentriesHandler.good_config: check_token(token)
    queue,        \* SocketAppender._queue, head first
    thread,       \* the Thread object: "new", "alive" or "dead"
    wpc,          \* where the worker is in run / reopenConnection
    caller,       \* which call of reopenConnection is running: line 82 or 102
    conn,         \* SocketAppender._conn
    root_delay,   \* reopenConnection's root_delay; 0 while it is not running
    wait_for,     \* reopenConnection's wait_for
    data,         \* run's data: the message taken from the queue
    multiline,    \* run's multiline: the line being sent
    pc,           \* per producer: where it is in emit
    rec,          \* per producer: the formatted text of the record it logs
    nEmits,       \* emit calls made so far
    startCalls,   \* calls of self._thread.start() made so far
    enqueued,     \* every message put in the queue, in order of the puts
    dequeued,     \* every message the worker took, in order of the gets
    wire,         \* every send that returned: the message's number, the
                  \* line handed to send, the bytes the socket took
    sendFails,    \* sends that raised socket.error so far
    connFails,    \* connect attempts that failed so far
    refusals,     \* connect attempts the endpoint refuses before it accepts
    fresh,        \* no send has returned yet on the current connection
    leaked,       \* some socket dropped from _conn without close() has
                  \* not yet been closed by the garbage collector
    interrupted   \* KeyboardInterrupt was delivered to the worker

vars == <<good_config, queue, thread, wpc, caller, conn, root_delay, wait_for,
          data, multiline, pc, rec, nEmits, startCalls, enqueued, dequeued,
          wire, sendFails, connFails, refusals, fresh, leaked, interrupted>>

workerVars == <<wpc, caller, conn, root_delay, wait_for, data, multiline,
                dequeued, wire, sendFails, connFails, refusals, fresh,
                leaked, interrupted>>
producerVars == <<pc, rec, nEmits, startCalls, enqueued>>

\* _started, lines 127-129
Started == thread = "alive"

\* The queue le_helpers.create_queue(QUEUE_SIZE) returns: a bounded FIFO
\* whose put blocks while it is full and whose get blocks while it is empty.
QueueFull(q) == Len(q) >= QUEUE_SIZE
QueuePut(q, m) == Append(q, m)
QueueHead(q) == Head(q)
QueueRest(q) == Tail(q)

(* ------------------------------- Init --------------------------------- *)

\* LogentriesHandler.__init__ and SocketAppender.__init__: the thread is
\* created but not started, and the identifier message is queued.
Init ==
    /\ good_config \in BOOLEAN
    /\ queue = QueuePut(<<>>, PrimingMsg)
    /\ enqueued = <<PrimingMsg>>
    /\ thread = "new"
    /\ wpc = "unstarted"
    /\ caller = "none"
    /\ conn = "None"
    /\ root_delay = 0
    /\ wait_for = 0
    /\ data = <<>>
    /\ multiline = <<>>
    /\ pc = [p \in Producers |-> "idle"]
    /\ rec = [p \in Producers |-> <<>>]
    /\ nEmits = 0
    /\ startCalls = 0
    /\ dequeued = <<>>
    /\ wire = <<>>
    /\ sendFails = 0
    /\ connFails = 0
    /\ refusals = MaxConnFail
    /\ fresh = FALSE
    /\ leaked = FALSE
    /\ interrupted = FALSE

(* ----------------------------- producers ------------------------------ *)

\* Mutant of EmitCheck: the condition forgets good_config.
EmitCheckIgnoresConfig(p) ==
    /\ pc[p] = "idle"
    /\ nEmits < MaxEmits
    /\ \E text \in FormattedRecords : rec' = [rec EXCEPT ![p] = text]
    /\ nEmits' = nEmits + 1
    /\ pc' = [pc EXCEPT ![p] = IF ~Started THEN "start" ELSE "put"]
    /\ UNCHANGED <<good_config, queue, thread, startCalls, enqueued>>
    /\ UNCHANGED workerVars

\* emit, line 132: a producer calls emit(record) and evaluates the condition.
EmitCheck(p) ==
    /\ pc[p] = "idle"
    /\ nEmits < MaxEmits
    /\ \E text \in FormattedRecords : rec' = [rec EXCEPT ![p] = text]
    /\ nEmits' = nEmits + 1
    /\ pc' = [pc EXCEPT ![p] = IF ~Started /\ good_config THEN "start" ELSE "put"]
    /\ UNCHANGED <<good_config, queue, thread, startCalls, enqueued>>
    /\ UNCHANGED workerVars

\* emit, lines 133-134: self._thread.start().  Thread.start() starts a thread
\* that was never started and raises RuntimeError on any other thread; the
\* error leaves emit, so the record is never queued.
EmitStart(p) ==
    /\ pc[p] = "start"
    /\ startCalls' = startCalls + 1
    /\ IF thread = "new"
       THEN /\ thread' = "alive"
            /\ wpc' = "reopen"
            /\ caller' = "run:82"
            /\ pc' = [pc EXCEPT ![p] = "put"]
            /\ UNCHANGED rec
       ELSE /\ pc' = [pc EXCEPT ![p] = "raised"]
            /\ rec' = [rec EXCEPT ![p] = <<>>]
            /\ UNCHANGED <<thread, wpc, caller>>
    /\ UNCHANGED <<good_config, queue, nEmits, enqueued, conn, root_delay,
                   wait_for, data, multiline, dequeued, wire, sendFails, connFails,
                   refusals, fresh, leaked, interrupted>>

\* Mutant of EmitPut: a put on a full queue makes room by discarding the
\* oldest message instead of blocking.
EmitPutDropsOldest(p) ==
    /\ pc[p] = "put"
    /\ queue' = IF QueueFull(queue)
                THEN QueuePut(QueueRest(queue), EmitMsg(rec[p]))
                ELSE QueuePut(queue, EmitMsg(rec[p]))
    /\ enqueued' = Append(enqueued, EmitMsg(rec[p]))
    /\ pc' = [pc EXCEPT ![p] = "idle"]
    /\ rec' = [rec EXCEPT ![p] = <<>>]
    /\ UNCHANGED <<good_config, thread, nEmits, startCalls>>
    /\ UNCHANGED workerVars

\* Mutant of EmitPut: the put never blocks and the queue grows.
EmitPutUnbounded(p) ==
    /\ pc[p] = "put"
    /\ queue' = QueuePut(queue, EmitMsg(rec[p]))
    /\ enqueued' = Append(enqueued, EmitMsg(rec[p]))
    /\ pc' = [pc EXCEPT ![p] = "idle"]
    /\ rec' = [rec EXCEPT ![p] = <<>>]
    /\ UNCHANGED <<good_config, thread, nEmits, startCalls>>
    /\ UNCHANGED workerVars

\* Mutant of EmitPut: the producer opens the connection itself when the
\* worker has none.
EmitPutOpensConnection(p) ==
    /\ pc[p] = "put"
    /\ ~QueueFull(queue)
    /\ queue' = QueuePut(queue, EmitMsg(rec[p]))
    /\ enqueued' = Append(enqueued, EmitMsg(rec[p]))
    /\ pc' = [pc EXCEPT ![p] = "idle"]
    /\ rec' = [rec EXCEPT ![p] = <<>>]
    /\ conn' = IF conn = "connected" THEN conn ELSE "connected"
    /\ leaked' = (leaked \/ conn = "unconnected")
    /\ UNCHANGED <<good_config, thread, nEmits, startCalls>>
    /\ UNCHANGED <<wpc, caller, root_delay, wait_for, data, multiline,
                   dequeued, wire, sendFails, connFails, refusals, fresh,
                   interrupted>>

\* emit, lines 136-139: format, prepend the token, and put (blocking).
EmitPut(p) ==
    /\ pc[p] = "put"
    /\ ~QueueFull(queue)
    /\ queue' = QueuePut(queue, EmitMsg(rec[p]))
    /\ enqueued' = Append(enqueued, EmitMsg(rec[p]))
    /\ pc' = [pc EXCEPT ![p] = "idle"]
    /\ rec' = [rec EXCEPT ![p] = <<>>]
    /\ UNCHANGED <<good_config, thread, nEmits, startCalls>>
    /\ UNCHANGED workerVars

(* ------------------------------ worker -------------------------------- *)

\* closeConnection, lines 75-77
CloseConnection(c) == IF c # "None" THEN "closed" ELSE c

\* A socket object that was created and on which close() was not called.
IsOpen(c) == c \in {"unconnected", "connected"}

\* Mutant of NextDelay: the delay doubles without the cap.
NextDelayUncapped(d) == d * 2

\* reopenConnection, lines 64-66: the delay after a failed attempt.
NextDelay(d) == Min(d * 2, MAX_DELAY)

\* The delay after n failed attempts had it never been set back.
RECURSIVE DelayAfter(_)
DelayAfter(n) == IF n = 0 THEN MIN_DELAY ELSE NextDelay(DelayAfter(n - 1))

\* Mutant of ReopenClose: the delay is kept across reconnect sequences.
ReopenCloseKeepsDelay ==
    /\ wpc = "reopen"
    /\ conn' = CloseConnection(conn)
    /\ root_delay' = DelayAfter(connFails)
    /\ wpc' = "connect"
    /\ UNCHANGED <<good_config, queue, thread, caller, wait_for, data, multiline,
                   dequeued, wire, sendFails, connFails, refusals, fresh,
                   leaked, interrupted>>
    /\ UNCHANGED producerVars

\* reopenConnection, lines 54-56: close, then start the delay at MIN_DELAY.
ReopenClose ==
    /\ wpc = "reopen"
    /\ conn' = CloseConnection(conn)
    /\ root_delay' = MIN_DELAY
    /\ wpc' = "connect"
    /\ UNCHANGED <<good_config, queue, thread, caller, wait_for, data, multiline,
                   dequeued, wire, sendFails, connFails, refusals, fresh,
                   leaked, interrupted>>
    /\ UNCHANGED producerVars

\* Mutant of ConnectOk: every new connection puts the identifier message
\* back at the head of the queue.
ConnectOkRequeuesPriming ==
    /\ wpc = "connect"
    /\ conn' = "connected"
    /\ leaked' = (leaked \/ IsOpen(conn))
    /\ fresh' = TRUE
    /\ queue' = <<PrimingMsg>> \o queue
    /\ wpc' = IF caller = "run:82" THEN "get" ELSE "send"
    /\ caller' = "none"
    /\ root_delay' = 0
    /\ UNCHANGED <<good_config, thread, wait_for, data, multiline,
                   dequeued, wire, sendFails, connFails, refusals, interrupted>>
    /\ UNCHANGED producerVars

\* reopenConnection, lines 58-60 with openConnection: a new socket replaces
\* the one in _conn, the connect succeeds and reopenConnection returns to its
\* caller.
ConnectOk ==
    /\ wpc = "connect"
    /\ conn' = "connected"
    /\ leaked' = (leaked \/ IsOpen(conn))
    /\ fresh' = TRUE
    /\ wpc' = IF caller = "run:82" THEN "get" ELSE "send"
    /\ caller' = "none"
    /\ root_delay' = 0
    /\ UNCHANGED <<good_config, queue, thread, wait_for, data, multiline,
                   dequeued, wire, sendFails, connFails, refusals, interrupted>>
    /\ UNCHANGED producerVars

\* reopenConnection, line 68: random.uniform(0, root_delay), the two ends of
\* its range.
Jitters(d) == {0, d}

\* Mutant of ConnectFail: a failed attempt gives up and returns to the
\* caller without a connection.
ConnectFailGivesUp ==
    /\ wpc = "connect"
    /\ connFails < refusals
    /\ connFails' = connFails + 1
    /\ conn' = "unconnected"
    /\ leaked' = (leaked \/ IsOpen(conn))
    /\ root_delay' = 0
    /\ wpc' = IF caller = "run:82" THEN "get" ELSE "send"
    /\ caller' = "none"
    /\ UNCHANGED <<good_config, queue, thread, wait_for, data, multiline,
                   dequeued, wire, sendFails, refusals, fresh, interrupted>>
    /\ UNCHANGED producerVars

\* reopenConnection, lines 58-68: a new socket replaces the one in _conn and
\* the connect fails; the new socket stays in _conn unconnected, the delay
\* doubles up to MAX_DELAY, and a jittered wait is drawn.
ConnectFail ==
    /\ wpc = "connect"
    /\ connFails < refusals
    /\ connFails' = connFails + 1
    /\ conn' = "unconnected"
    /\ leaked' = (leaked \/ IsOpen(conn))
    /\ root_delay' = NextDelay(root_delay)
    /\ \E jitter \in Jitters(NextDelay(root_delay)) :
          wait_for' = NextDelay(root_delay) + jitter
    /\ wpc' = "sleep"
    /\ UNCHANGED <<good_config, queue, thread, caller, data, multiline,
                   dequeued, wire, sendFails, refusals, fresh, interrupted>>
    /\ UNCHANGED producerVars

\* reopenConnection, lines 70-71: the sleep ends and the loop tries again.
Sleep ==
    /\ wpc = "sleep"
    /\ wait_for' = 0
    /\ wpc' = "connect"
    /\ UNCHANGED <<good_config, queue, thread, caller, conn, root_delay, data,
                   multiline, dequeued, wire, sendFails, connFails, refusals,
                   fresh, leaked, interrupted>>
    /\ UNCHANGED producerVars

\* Mutant of QueueGet: the worker takes the newest message.
QueueGetNewest ==
    /\ wpc = "get"
    /\ queue # <<>>
    /\ data' = queue[Len(queue)]
    /\ queue' = SubSeq(queue, 1, Len(queue) - 1)
    /\ multiline' = Multiline(queue[Len(queue)])
    /\ dequeued' = Append(dequeued, queue[Len(queue)])
    /\ wpc' = "send"
    /\ UNCHANGED <<good_config, thread, caller, conn, root_delay, wait_for,
                   wire, sendFails, connFails, refusals, fresh, leaked,
                   interrupted>>
    /\ UNCHANGED producerVars

\* run, lines 87-96: take the oldest message (blocking) and frame it.
QueueGet ==
    /\ wpc = "get"
    /\ queue # <<>>
    /\ data' = QueueHead(queue)
    /\ queue' = QueueRest(queue)
    /\ multiline' = Multiline(QueueHead(queue))
    /\ dequeued' = Append(dequeued, QueueHead(queue))
    /\ wpc' = "send"
    /\ UNCHANGED <<good_config, thread, caller, conn, root_delay, wait_for,
                   wire, sendFails, connFails, refusals, fresh, leaked,
                   interrupted>>
    /\ UNCHANGED producerVars

\* socket.send: the number of bytes the socket may take from a line, from
\* one byte (a short write) to all of them; the two ends of that range.
SendCounts(line) == {1, Len(line)}

\* Mutant of SendOk: the connection is reopened after every send.
SendOkReconnects ==
    /\ wpc = "send"
    /\ \E n \in SendCounts(multiline) :
          wire' = Append(wire, [idx |-> Len(dequeued), line |-> multiline,
                                bytes |-> SubSeq(multiline, 1, n)])
    /\ fresh' = FALSE
    /\ wpc' = "reopen"
    /\ caller' = "run:82"
    /\ UNCHANGED <<good_config, queue, thread, conn, root_delay,
                   wait_for, data, multiline, dequeued, sendFails, connFails,
                   refusals, leaked, interrupted>>
    /\ UNCHANGED producerVars

\* run, lines 98-104: send returns (the number of bytes it took is not
\* looked at) and the loop goes on to the next message.
SendOk ==
    /\ wpc = "send"
    /\ \E n \in SendCounts(multiline) :
          wire' = Append(wire, [idx |-> Len(dequeued), line |-> multiline,
                                bytes |-> SubSeq(multiline, 1, n)])
    /\ fresh' = FALSE
    /\ wpc' = "get"
    /\ UNCHANGED <<good_config, queue, thread, caller, conn, root_delay,
                   wait_for, data, multiline, dequeued, sendFails, connFails,
                   refusals, leaked, interrupted>>
    /\ UNCHANGED producerVars

\* Mutant of SendFail: after the reconnect the loop takes the next message
\* instead of sending the same line again.
SendFailDropsMessage ==
    /\ wpc = "send"
    /\ sendFails < MaxSendFail
    /\ sendFails' = sendFails + 1
    /\ wpc' = "reopen"
    /\ caller' = "run:82"
    /\ UNCHANGED <<good_config, queue, thread, conn, root_delay, wait_for,
                   data, multiline, dequeued, wire, connFails, refusals, fresh,
                   leaked, interrupted>>
    /\ UNCHANGED producerVars

\* run, lines 101-103: send raises socket.error; reconnect and send the
\* same line again.
SendFail ==
    /\ wpc = "send"
    /\ sendFails < MaxSendFail
    /\ sendFails' = sendFails + 1
    /\ wpc' = "reopen"
    /\ caller' = "run:102"
    /\ UNCHANGED <<good_config, queue, thread, conn, root_delay, wait_for,
                   data, multiline, dequeued, wire, connFails, refusals, fresh,
                   leaked, interrupted>>
    /\ UNCHANGED producerVars

Running == wpc \in {"reopen", "connect", "sleep", "get", "send"}

\* Mutant of Interrupt: the reconnect loop catches the interrupt like a
\* failed attempt and goes on.
InterruptSwallowedByReconnect ==
    /\ Running
    /\ interrupted' = TRUE
    /\ IF wpc \in {"connect", "sleep"}
       THEN /\ wpc' = "connect"
            /\ UNCHANGED <<caller, wait_for, root_delay>>
       ELSE /\ wpc' = "interrupted"
            /\ caller' = "none"
            /\ wait_for' = 0
            /\ root_delay' = 0
    /\ UNCHANGED <<good_config, queue, thread, conn, data, multiline, dequeued,
                   wire, sendFails, connFails, refusals, fresh, leaked>>
    /\ UNCHANGED producerVars

\* run, lines 105-106: KeyboardInterrupt reaches the worker inside the try,
\* at a blocking point (get, connect, sleep) or during a send; neither
\* `except Exception` (line 61) nor `except socket.error` (line 101) catches
\* it and line 73 raises it again, so control goes to line 105.
Interrupt ==
    /\ Running
    /\ interrupted' = TRUE
    /\ wpc' = "interrupted"
    /\ caller' = "none"
    /\ wait_for' = 0
    /\ root_delay' = 0
    /\ UNCHANGED <<good_config, queue, thread, conn, data, multiline, dequeued,
                   wire, sendFails, connFails, refusals, fresh, leaked>>
    /\ UNCHANGED producerVars

\* run, line 108: close the connection; run returns and the thread ends.
RunExit ==
    /\ wpc = "interrupted"
    /\ conn' = CloseConnection(conn)
    /\ wpc' = "done"
    /\ thread' = "dead"
    /\ UNCHANGED <<good_config, queue, caller, root_delay, wait_for, data,
                   multiline, dequeued, wire, sendFails, connFails, refusals,
                   fresh, leaked, interrupted>>
    /\ UNCHANGED producerVars

\* openConnection, line 50: binding _conn to the new socket drops the socket
\* it held without close(); the garbage collector reclaims the dropped
\* sockets, which closes them (at once under reference counting, at some
\* later point otherwise).
Collect ==
    /\ leaked
    /\ leaked' = FALSE
    /\ UNCHANGED <<good_config, queue, thread, wpc, caller, conn, root_delay,
                   wait_for, data, multiline, dequeued, wire, sendFails,
                   connFails, refusals, fresh, interrupted>>
    /\ UNCHANGED producerVars

(* ------------------------------- Next --------------------------------- *)

WorkerStep ==
    \/ ReopenClose
    \/ ConnectOk
    \/ ConnectFail
    \/ Sleep
    \/ QueueGet
    \/ SendOk
    \/ SendFail
    \/ RunExit

ProducerStep(p) ==
    \/ EmitCheck(p)
    \/ EmitStart(p)
    \/ EmitPut(p)

Next ==
    \/ \E p \in Producers : ProducerStep(p)
    \/ WorkerStep
    \/ Interrupt
    \/ Collect

Spec == Init /\ [][Next]_vars

\* The worker thread is scheduled as long as it can take a step.  Nothing
\* is assumed of the producers, which may stop logging at any point.
LiveSpec ==
    /\ Spec
    /\ WF_vars(WorkerStep)

\* A handler with a valid token in front of an endpoint that refuses up to
\* BackoffRefusals connects, with one emit call left to be made: the same
\* program, with room for a long run of failed attempts.
BackoffInit ==
    /\ good_config = TRUE
    /\ queue = QueuePut(<<>>, PrimingMsg)
    /\ enqueued = <<PrimingMsg>>
    /\ thread = "new"
    /\ wpc = "unstarted"
    /\ caller = "none"
    /\ conn = "None"
    /\ root_delay = 0
    /\ wait_for = 0
    /\ data = <<>>
    /\ multiline = <<>>
    /\ pc = [p \in Producers |-> "idle"]
    /\ rec = [p \in Producers |-> <<>>]
    /\ nEmits = MaxEmits - 1
    /\ startCalls = 0
    /\ dequeued = <<>>
    /\ wire = <<>>
    /\ sendFails = 0
    /\ connFails = 0
    /\ refusals = BackoffRefusals
    /\ fresh = FALSE
    /\ leaked = FALSE
    /\ interrupted = FALSE

BackoffSpec == BackoffInit /\ [][Next]_vars

BackoffLiveSpec ==
    /\ BackoffSpec
    /\ WF_vars(WorkerStep)

(* ------------------------------ claims -------------------------------- *)

\* A send of message number k (the k-th message taken from the queue)
\* returned without an error, and the line it sent is that message's line.
Sent(k) ==
    \E i \in DOMAIN wire :
        /\ wire[i].idx = k
        /\ k \in DOMAIN dequeued
        /\ wire[i].line = Multiline(dequeued[k])

\* The worker holds a message that no send has transmitted yet.
InFlight == dequeued # <<>> /\ ~Sent(Len(dequeued))

\* C1: no message is lost on a transient send failure.  Once the worker has
\* taken message k, then unless the worker is interrupted a send of that same
\* message returns without error, whatever sends and connects failed before;
\* and the worker takes no other message before that send has returned (so
\* the message in flight when the send returns is the one that was taken).
\* (How many of the line's bytes that send transmitted is C2's subject.)
C1_NoLossOnSendFailure ==
    /\ InFlight ~> (Sent(Len(dequeued)) \/ ~Running)
    /\ [][Len(dequeued') # Len(dequeued)
            => (Len(dequeued) = 0 \/ Sent(Len(dequeued)))]_vars

\* The first message was sent after two failed sends of it and a refused
\* connect.
C1_Witness ==
    /\ Len(dequeued) = 1
    /\ Sent(1)
    /\ sendFails = 2
    /\ connFails >= 1

\* C2: exactly once on the wire.  Every message the worker is done with has
\* exactly one copy on the wire and that copy is its whole line; no send
\* leaves a truncated or a second copy.
C2_ExactlyOnceOnWire ==
    /\ \A i \in DOMAIN wire : wire[i].bytes = wire[i].line
    /\ \A i, j \in DOMAIN wire : wire[i].idx = wire[j].idx => i = j
    /\ \A k \in DOMAIN dequeued :
          (k < Len(dequeued) \/ wpc = "get") => Sent(k)

\* C3: no error is ever returned to a producer from emit.
C3_NoErrorToProducer == \A p \in Producers : pc[p] # "raised"

\* C4: with a valid token the thread is started exactly once: start is
\* never called at construction, is called by the first emit, and is never
\* called a second time.
C4_StartedExactlyOnce ==
    good_config =>
        /\ startCalls <= 1
        /\ (nEmits = 0 => startCalls = 0 /\ thread = "new")
        /\ (Len(enqueued) > 1 => startCalls = 1)

C6_InvalidTokenNoOp ==
    ~good_config =>
        /\ thread = "new"
        /\ wpc = "unstarted"
        /\ startCalls = 0
        /\ conn = "None"
        /\ connFails = 0
        /\ sendFails = 0
        /\ dequeued = <<>>
        /\ wire = <<>>

\* Two emits were made with an invalid token and one of them has returned.
C6_Witness ==
    /\ ~good_config
    /\ nEmits >= 2
    /\ Len(enqueued) >= 2

\* C7: with an invalid token every emit returns.  Nothing takes from the
\* queue then, so an emit that finds the queue full never returns: the claim
\* is that no emit is ever at its put with the queue full.
C7_SubmitReturns ==
    ~good_config =>
        \A p \in Producers : pc[p] = "put" => Len(queue) < QUEUE_SIZE

\* C8: FIFO.  The messages taken from the queue, in the order taken, are
\* the first messages put, in the order put.
C8_FIFO == IsPrefix(dequeued, enqueued)

\* Three messages were taken, the two user messages differing.
C8_Witness ==
    /\ Len(dequeued) = 3
    /\ dequeued[2] # dequeued[3]

\* C9: backpressure.  A put on a full queue stays blocked while the queue
\* is full; a put never raises; when it completes the new message is at the
\* tail and nothing was discarded; the queue only ever changes by a put at
\* the tail or by the worker taking the head.
C9_Backpressure ==
    [][/\ \A p \in Producers :
            /\ (pc[p] = "put" /\ Len(queue) >= QUEUE_SIZE) => pc'[p] = "put"
            /\ pc[p] = "put" => pc'[p] \in {"put", "idle"}
            /\ (pc[p] = "put" /\ pc'[p] = "idle")
                  => queue' = Append(queue, EmitMsg(rec[p]))
       /\ queue' # queue =>
            \/ \E p \in Producers : queue' = Append(queue, EmitMsg(rec[p]))
            \/ /\ queue # <<>>
               /\ queue' = Tail(queue)
               /\ dequeued' = Append(dequeued, Head(queue))]_vars

\* A producer is blocked in its put on a full queue while the worker runs.
C9_Witness ==
    /\ good_config
    /\ Running
    /\ Len(queue) = QUEUE_SIZE
    /\ \E p \in Producers : pc[p] = "put"

\* C10: the queue never holds more than QUEUE_SIZE messages, the identifier
\* message queued at construction included.
C10_QueueBounded == Len(queue) <= QUEUE_SIZE

\* The queue is full, the identifier message still in it, and a producer
\* waits to put.
C10_Witness ==
    /\ Len(queue) = QUEUE_SIZE
    /\ queue[1] = PrimingMsg
    /\ \E p \in Producers : pc[p] = "put"

\* A connect attempt fails: lines 61-68 run.
AttemptFails == connFails' = connFails + 1

\* C11: over one reconnect sequence the base delay never decreases from one
\* failed attempt to the next: each failed attempt doubles it until the
\* double would pass MAX_DELAY, from then on it is MAX_DELAY and stays there;
\* the wait drawn after a failed attempt lies between the base delay and
\* twice the base delay.
C11_BackoffMonotonicCapped ==
    /\ [][AttemptFails =>
            /\ root_delay >= MIN_DELAY
            /\ root_delay' = IF 2 * root_delay <= MAX_DELAY
                             THEN 2 * root_delay ELSE MAX_DELAY
            /\ root_delay' >= root_delay
            /\ root_delay' <= MAX_DELAY
            /\ (root_delay = MAX_DELAY => root_delay' = MAX_DELAY)
            /\ wait_for' >= root_delay'
            /\ wait_for' <= 2 * root_delay']_vars
    /\ [][(wpc = "sleep" /\ wpc' = "connect") => root_delay' = root_delay]_vars

\* A failed attempt made with the delay already at MAX_DELAY, after the
\* doubling 1, 2, 4, ..., 64 passed the cap.
C11_Witness ==
    /\ wpc = "sleep"
    /\ connFails = BackoffRefusals
    /\ sendFails = 0
    /\ root_delay = MAX_DELAY
    /\ wait_for = 2 * MAX_DELAY

\* The worker is inside reopenConnection.
InReconnect == wpc \in {"reopen", "connect", "sleep"}

\* C12: connect attempts are retried without limit: a failed attempt is
\* followed by a sleep and the sleep by another attempt, the reconnect loop
\* is left only connected (or by the interrupt), and since the endpoint
\* accepts after finitely many refusals the worker reaches the connected
\* state unless it is interrupted.
C12_RetriedUntilConnected ==
    /\ [][(wpc = "connect" /\ AttemptFails) => wpc' = "sleep"]_vars
    /\ [][(wpc = "sleep" /\ wpc' # "sleep") =>
            (wpc' = "connect" \/ interrupted')]_vars
    /\ [][(InReconnect /\ ~InReconnect') =>
            (conn' = "connected" \/ interrupted')]_vars
    /\ InReconnect ~> ((~InReconnect /\ conn = "connected") \/ interrupted)

\* The endpoint refused every attempt it could refuse, and the worker is
\* connected and out of the loop, waiting for a message.
C12_Witness ==
    /\ connFails = BackoffRefusals
    /\ sendFails = 0
    /\ conn = "connected"
    /\ wpc = "get"
    /\ ~interrupted

\* f is message m with every newline replaced by LINE_SEP, then one newline.
IsFrameOf(f, m) ==
    /\ Len(f) = Len(m) + 1
    /\ f[Len(f)] = NL
    /\ \A i \in 1..Len(m) : f[i] = IF m[i] = NL THEN LINE_SEP ELSE m[i]

\* f holds exactly one newline, as its last character.
OneNewlineLast(f) ==
    /\ f # <<>>
    /\ {i \in 1..Len(f) : f[i] = NL} = {Len(f)}

\* C13: every line handed to send, for the identifier message and for every
\* record, is the dequeued message with each of its newlines replaced by
\* LINE_SEP and one newline appended, so it holds exactly one newline, at
\* its end.
C13_MultilineFraming ==
    /\ wpc = "send" =>
          /\ IsFrameOf(multiline, data)
          /\ OneNewlineLast(multiline)
    /\ \A i \in DOMAIN wire :
          /\ IsFrameOf(wire[i].line, dequeued[wire[i].idx])
          /\ OneNewlineLast(wire[i].line)

\* A record whose text has a newline inside was sent, after the identifier
\* message: its line carries LINE_SEP where the newline was.
C13_Witness ==
    /\ Len(wire) >= 2
    /\ wire[1].line = Token \o LIBRARY_IDENTIFIER \o <<LINE_SEP, NL>>
    /\ \E i \in DOMAIN wire :
          /\ dequeued[wire[i].idx] = Token \o <<"b", NL, "c">>
          /\ wire[i].line = Token \o <<"b", LINE_SEP, "c", NL>>

\* The line the identifier message is sent as.
PrimingLine == Token \o LIBRARY_IDENTIFIER \o <<LINE_SEP, NL>>

\* C14 as stated: the first line sent on every connection, those opened
\* after a send failure included, is the identifier message.
C14_PrimingFirstOnEveryConnection ==
    [][(wire' # wire /\ fresh) => multiline = PrimingLine]_vars

\* C14, amended: the identifier message is sent once, as the first line of
\* the first connection; a connection opened after a send failure starts
\* with the line whose send failed, which the worker keeps through the
\* reconnect, and the identifier message is not sent again on it.
C14_PrimingFirstOnStartupOnly ==
    /\ [](\A i \in DOMAIN wire : (wire[i].line = PrimingLine) = (i = 1))
    /\ [][caller = "run:102" =>
            (multiline' = multiline /\ dequeued' = dequeued)]_vars
    /\ [][(wire' # wire /\ wire = <<>>) =>
            (fresh /\ multiline = PrimingLine)]_vars
    /\ [][(wire' # wire /\ fresh /\ wire # <<>>) =>
            /\ sendFails >= 1
            /\ multiline # PrimingLine
            /\ wire'[Len(wire')].line = multiline
            /\ wire'[Len(wire')].idx = Len(dequeued)]_vars

\* The send of a record failed, the worker reconnected, and on the new
\* connection, on which nothing was sent yet, it is about to send that
\* record again, not the identifier message.
C14_Witness ==
    /\ wpc = "send"
    /\ fresh
    /\ sendFails >= 1
    /\ Len(wire) >= 1
    /\ multiline # PrimingLine
    /\ multiline = Multiline(dequeued[Len(dequeued)])

\* C15: once KeyboardInterrupt is delivered to the worker, at the blocking
\* get, in a connect attempt, in the backoff sleep or during a send, the
\* worker makes no further connect attempt or send and takes no further
\* message; it goes to the handler, closes the connection and ends, and the
\* reconnect loop does not catch the interrupt and carry on.
C15_Cancellation ==
    /\ [][interrupted =>
            /\ connFails' = connFails
            /\ sendFails' = sendFails
            /\ wire' = wire
            /\ dequeued' = dequeued
            /\ conn' \in {conn, "closed"}
            /\ wpc' \in {"interrupted", "done"}]_vars
    /\ [][(interrupted' /\ ~interrupted) =>
            (Running /\ wpc' = "interrupted")]_vars
    /\ [](wpc = "done" =>
            /\ interrupted
            /\ thread = "dead"
            /\ ~IsOpen(conn))
    /\ interrupted ~> (wpc = "done")

\* The interrupt came after a send failure and a refused connect, with the
\* message whose send failed still unsent; the worker has closed the socket
\* and ended without sending it.
C15_Witness ==
    /\ wpc = "done"
    /\ interrupted
    /\ conn = "closed"
    /\ thread = "dead"
    /\ connFails >= 1
    /\ sendFails >= 1
    /\ Len(wire) < Len(dequeued)

\* C16: at most one socket created by the worker is open (created and not
\* yet closed) at any time, the one in _conn and those dropped from it
\* counted together.
C16_AtMostOneOpenSocket == ~(leaked /\ IsOpen(conn))

\* C17: every reconnect sequence starts from MIN_DELAY, whatever the delay
\* reached in an earlier sequence: entering the loop sets the delay to
\* MIN_DELAY, and the first failed attempt of a sequence, the one made with
\* no socket left from an attempt before it, doubles it to 2 * MIN_DELAY.
C17_BackoffResetPerSequence ==
    /\ [][(wpc = "reopen" /\ wpc' = "connect") => root_delay' = MIN_DELAY]_vars
    /\ [][(AttemptFails /\ conn # "unconnected") =>
            root_delay' = 2 * MIN_DELAY]_vars

\* Two reconnect sequences: in the first the endpoint refused all but one
\* of the connects it refuses, which took the delay to MAX_DELAY; a send
\* failed; the second sequence is after its first failed attempt, with the
\* delay at 2 * MIN_DELAY.
C17_Witness ==
    /\ sendFails = 1
    /\ connFails = BackoffRefusals
    /\ wpc = "sleep"
    /\ root_delay = 2 * MIN_DELAY
    /\ DelayAfter(BackoffRefusals - 1) = MAX_DELAY

\* C18: the worker enters reopenConnection either once when it starts
\* (line 82) or right after a send raised socket.error (line 102), and in
\* no other way: not after a send that returned, not on taking a message,
\* not from a producer's emit beyond the start of the thread.
C18_OnlySendFailureReconnects ==
    /\ [][(wpc' = "reopen" /\ wpc # "reopen") =>
            \/ /\ wpc = "unstarted"
               /\ thread = "new"
               /\ caller' = "run:82"
            \/ /\ wpc = "send"
               /\ sendFails' = sendFails + 1
               /\ wire' = wire
               /\ caller' = "run:102"]_vars
    /\ [][(InReconnect /\ ~InReconnect') =>
            (interrupted' \/ wpc' = (IF caller = "run:82" THEN "get" ELSE "send"))]_vars
    /\ [](caller = "run:102" => sendFails >= 1 /\ Len(wire) < Len(dequeued))

\* A reconnect sequence begun by a failed send of a record, after an
\* earlier send had returned.
C18_Witness ==
    /\ wpc = "reopen"
    /\ caller = "run:102"
    /\ sendFails >= 1
    /\ Len(wire) >= 1
    /\ Len(dequeued) = Len(wire) + 1

\* A producer takes a step of emit.
EmitStep == \E p \in Producers : pc'[p] # pc[p]

\* C19: a step of emit, by any producer in any state, leaves _conn, the
\* state of the connection, the backoff delay and wait, and everything the
\* worker sent or took as they were; it only appends to the queue and, on
\* a thread never started, starts the worker.
C19_ProducersLeaveConnection ==
    [][EmitStep =>
         /\ UNCHANGED <<conn, leaked, root_delay, wait_for, fresh>>
         /\ UNCHANGED <<connFails, sendFails, wire, dequeued, data, multiline>>
         /\ \/ queue' = queue
            \/ /\ Len(queue') = Len(queue) + 1
               /\ SubSeq(queue', 1, Len(queue)) = queue
         /\ \/ wpc' = wpc
            \/ /\ wpc = "unstarted"
               /\ thread = "new"
               /\ wpc' = "reopen"]_vars

\* Two producers are inside emit at once while the worker, after two
\* refused connects, sleeps with the delay doubled twice and an unconnected
\* socket in _conn.
C19_Witness ==
    /\ wpc = "sleep"
    /\ conn = "unconnected"
    /\ root_delay = 4 * MIN_DELAY
    /\ \A p \in {1, 2} : pc[p] = "put"

\* C20: the worker holds at most one message that it took and has not yet
\* sent, and takes the next only after the current one was sent; so what
\* arrived on the wire is, in order, the complete lines of the messages in
\* the order they were put in the queue, across send failures and
\* reconnects, and every message ever put is still in the queue, or is the
\* one the worker holds, or arrived in full.
C20_OneInFlightInOrder ==
    /\ Len(wire) <= Len(dequeued)
    /\ Len(dequeued) <= Len(wire) + 1
    /\ enqueued = dequeued \o queue
    /\ Len(dequeued) = Len(wire) + 1 => data = dequeued[Len(dequeued)]
    /\ \A i \in DOMAIN wire :
          /\ wire[i].idx = i
          /\ IsFrameOf(wire[i].bytes, enqueued[i])

====
